---- MODULE Spec2Model ----
(***************************************************************************)
(* QueryResultTable (query-master): the editable result grid's view state, *)
(* the change collector and the cell manager it drives, and the context    *)
(* menu built over them.                                                   *)
(*                                                                         *)
(* Display positions (y) and column coordinates (x) are 0-based as in the  *)
(* source; TLA+ sequences are 1-based, so data[y] of the source is         *)
(* data[y + 1] here.                                                       *)
(*                                                                         *)
(* Every step is one handler together with the render that follows it.     *)
(* The context menu is modal: it is built by OpenContextMenu and one of    *)
(* its items is then clicked (or it is dismissed).  An item's onClick is   *)
(* a step whether or not the item is disabled, so that what a disabled     *)
(* item would do is part of the behaviour.                                 *)
(*                                                                         *)
(* The collector, the cell manager and the cell controllers are not in     *)
(* QueryResultTable.tsx; they are modelled from their contracts.           *)
(*                                                                         *)
(* Spec       rows, pages, results, collectors and mounts; no cell mounted *)
(* SpecEdit   rows and cells on the first page of one result and collector *)
(* SpecRender one pass of the function body over the props the parent can  *)
(*            pass, absent ones and wide columns included                  *)
(***************************************************************************)
EXTENDS Integers, Sequences, FiniteSets, TLC

\* ------------------------------------------------------------------ bounds
MaxNewRows == 2      \* createNewRow is offered while fewer rows were created
MaxPage == 1         \* the parent shows pages 0..MaxPage
MaxRemoved == 2      \* removeRow of a new identity while fewer are removed
MaxChanges == 2      \* pending cell edits held by the collector
MaxMounted == 2      \* cells the grid keeps mounted at a time
MaxSelected == 2     \* display positions in one selection
MaxLoad == 4         \* created + removed + edited + mounted + selected, together

\* ---------------------------------------------------- program constants
\* the rows getInitialSizeByHeaderType samples: result.slice(0, 100)
SampleRows == 100

\* the pageSize values the parent passes
PageSizes == {2}

\* ------------------------------------------------------------------ values
Unset == "undefined"
Null == "NULL"

\* the header lists of the query results the parent passes
HeaderChoices == { << [name |-> "id", type |-> "number"],
                      [name |-> "name", type |-> "string"] >> }

HeaderNames(hs) == { hs[i].name : i \in 1..Len(hs) }

\* a cell controller is named by its (row, col) key in the cell manager;
\* NoCell is the `undefined` of cellManager.get / getFocusCell
NoCell == [row |-> 0, col |-> -1]
Cell(r, c) == [row |-> r, col |-> c]

\* one call made by a handler: op, the row/col it addresses, and its argument
\* (insert) or what it met (removeRow: "marked" / "already removed";
\* get: "cell" / "undefined")
Call(o, r, c, v) == [op |-> o, row |-> r, col |-> c, val |-> v]

VARIABLES
  \* props
  headers, result, page, pageSize,
  \* the props among headers and result that the parent leaves undefined
  absent,
  \* React state of the component
  mounted, newRowCount, selectedRowsIndex, removeRowsIndex,
  \* useMemo cache of `data`
  data,
  \* what the last render returned, and the useMemo cache of `headerMemo`
  rendered, headerMemo,
  \* the change collector of the context
  colNewRowCount, colRemoved, colChanges, colSubs,
  \* the component's callbacks still registered with collectors other than the
  \* context's
  oldSubs,
  \* the cell manager
  cells, focusCell, clipboard,
  \* the context menu built by the useContextMenu callback
  menu,
  \* the calls the last handler made
  last

props == << headers, result, page, pageSize, absent >>
viewState == << mounted, newRowCount, selectedRowsIndex, removeRowsIndex >>
collectorState == << colNewRowCount, colRemoved, colChanges, colSubs, oldSubs >>
cellState == << cells, focusCell, clipboard >>
vars == << props, viewState, data, rendered, headerMemo, collectorState, cellState, menu, last >>

\* ------------------------------------------------------------ sequences
Range(s) == { s[i] : i \in 1..Len(s) }

RECURSIVE SortedSeq(_)
\* the ascending sequence of a finite set of integers
SortedSeq(S) ==
  IF S = {} THEN << >>
  ELSE LET m == CHOOSE x \in S : \A y \in S : x <= y
       IN << m >> \o SortedSeq(S \ {m})

\* d.findIndex(({ rowIndex }) => rowIndex === r): the first 0-based index of
\* a row of that identity, -1 when there is none
FindIndex(d, r) ==
  IF \E i \in 1..Len(d) : d[i].rowIndex = r
  THEN (CHOOSE i \in 1..Len(d) :
          d[i].rowIndex = r /\ \A j \in 1..(i - 1) : d[j].rowIndex # r) - 1
  ELSE -1

\* ------------------------------------------------------- props (parent)
\* a fetched row: rowIndex is its index in the whole (unpaginated) result
FetchedRow(i, hs) == [rowIndex |-> i, data |-> [n \in HeaderNames(hs) |-> "v"]]

\* the slices of a result the parent can pass for page p: up to ps rows,
\* numbered from p * ps
ResultChoices(hs, p, ps) ==
  { [j \in 1..len |-> FetchedRow(p * ps + (j - 1), hs)] : len \in 0..ps }

\* ------------------------------------------------- change collector
\* createNewRow(): one more synthetic row
createNewRow(count) == count + 1

\* removeRow(rowIndex): mark the identity removed (a set, insertion order)
removeRow(removed, r) ==
  IF r \in Range(removed) THEN removed ELSE Append(removed, r)

\* the pending edit of cell (r, c), set or overwritten
SetChange(ch, r, c, v) ==
  { e \in ch : ~(e.row = r /\ e.col = c) } \cup { [row |-> r, col |-> c, value |-> v] }

\* the pending edits of the whole row of cell (r, c), removed
RemoveChangeOfRow(ch, r, c) == { e \in ch : e.row # r }

\* the pending edit of cell (r, c), removed
RemoveChange(ch, r, c) == { e \in ch : ~(e.row = r /\ e.col = c) }

HasChange(ch, r, c) == \E e \in ch : e.row = r /\ e.col = c

\* getChangesCount(): pending cell edits over all rows
getChangesCount(ch) == Cardinality(ch)

RECURSIVE ChangesOfRows(_, _)
ChangesOfRows(ch, rows) ==
  IF rows = << >> THEN << >>
  ELSE LET r == Head(rows)
           cs == SortedSeq({ e.col : e \in { f \in ch : f.row = r } })
       IN << [row |-> r,
              cols |-> [k \in 1..Len(cs) |->
                          [col |-> cs[k],
                           value |-> (CHOOSE e \in ch : e.row = r /\ e.col = cs[k]).value]]] >>
          \o ChangesOfRows(ch, Tail(rows))

\* getChanges().changes: a snapshot list of {row, cols: [{col, value}]}
getChanges(ch) == ChangesOfRows(ch, SortedSeq({ e.row : e \in ch }))

\* ------------------------------------------------------- cell manager
\* cellManager.get(row, col): the mounted cell, or undefined
cellManagerGet(cs, r, c) == IF Cell(r, c) \in cs THEN Cell(r, c) ELSE NoCell

\* cellManager.getFocusCell()
getFocusCell(fc) == fc

\* ------------------------------------------------- component, derived
\* newRowsIndex: new Array(newRowCount).fill(0).map((_, idx) => idx)
newRowsIndexOf(n) == [k \in 1..n |-> k - 1]

\* data with the fetched rows spread first
ComputeDataFetchedFirst(n, hs, res) ==
  LET newRows == [k \in 1..n |->
                    LET newRowIndex == k - 1
                    IN [rowIndex |-> -(newRowIndex + 1),
                        data |-> [h \in HeaderNames(hs) |-> Unset]]]
  IN res \o newRows

\* data: the synthetic rows, then the fetched rows
ComputeData(n, hs, res) ==
  LET newRows == [k \in 1..n |->
                    LET newRowIndex == k - 1
                    IN [rowIndex |-> -(newRowIndex + 1),
                        data |-> [h \in HeaderNames(hs) |-> Unset]]]
  IN newRows \o res

\* relativeRemoveRowsIndex computed by offset instead of by lookup
RelativeRemoveRowsIndexByOffset(removed, d) ==
  [k \in 1..Len(removed) |->
     LET removeIndex == removed[k]
         n == Cardinality({ i \in 1..Len(d) : d[i].rowIndex < 0 })
     IN IF removeIndex >= 0 THEN n + removeIndex ELSE -removeIndex - 1]

\* relativeRemoveRowsIndex: each removed identity's index in data
RelativeRemoveRowsIndexOf(removed, d) ==
  [k \in 1..Len(removed) |->
     LET removeIndex == removed[k]
     IN FindIndex(d, removeIndex)]

newRowsIndex == newRowsIndexOf(newRowCount)
relativeRemoveRowsIndex == RelativeRemoveRowsIndexOf(removeRowsIndex, data)

\* the removeRow argument of a fetched row without the new-row count taken off
RemoveRowArgumentKeepsNewRows(selectedRowIndex, n, p, ps) ==
  IF selectedRowIndex - n < 0
  THEN selectedRowIndex - n
  ELSE selectedRowIndex + p * ps

\* the removeRow argument without the page offset
RemoveRowArgumentNoPage(selectedRowIndex, n, p, ps) == selectedRowIndex - n

\* the identity 'Remove selected rows' hands to collector.removeRow for the
\* selected display position
RemoveRowArgument(selectedRowIndex, n, p, ps) ==
  IF selectedRowIndex - n < 0
  THEN selectedRowIndex - n
  ELSE selectedRowIndex - n + p * ps

\* onChangeUpdate without setNewRowCount
onChangeUpdateRemovedOnly(count, removed) ==
  [newRowCount |-> newRowCount, removeRowsIndex |-> removed]

\* onChangeUpdate: the state the subscriber sets from the collector
onChangeUpdate(count, removed) ==
  [newRowCount |-> count, removeRowsIndex |-> removed]

\* the value a cell shows: its pending edit, else the row's value
CellValue(ch, d, hs, c) ==
  IF HasChange(ch, c.row, c.col)
  THEN (CHOOSE e \in ch : e.row = c.row /\ e.col = c.col).value
  ELSE LET y == FindIndex(d, c.row)
       IN IF y >= 0 /\ c.col < Len(hs) THEN d[y + 1].data[hs[c.col + 1].name] ELSE Unset

RowIds(d) == { d[i].rowIndex : i \in 1..Len(d) }

\* useMemo that never recomputes
UseMemoStale(prevDeps, deps, cached, fresh) == cached

\* useMemo: the cached value while the dependencies are the last render's
UseMemo(prevDeps, deps, cached, fresh) == IF deps # prevDeps THEN fresh ELSE cached

\* ------------------------------------------------- component, render
\* what a render returns: the data memo reads headers for each new row and
\* spreads result before the test on the two props
RenderOutcome(abs, n) ==
  LET newRowsThrow == n > 0 /\ "headers" \in abs
      spreadThrows == "result" \in abs
  IN IF newRowsThrow \/ spreadThrows THEN "TypeError"
     ELSE IF abs # {} THEN "No result"
     ELSE "table"

\* typeof v === 'string'
IsString(v) == v \notin {Unset, Null}

Max2(a, b) == IF a >= b THEN a ELSE b
Min2(a, b) == IF a <= b THEN a ELSE b

\* Math.max(...lengths) of a non-empty list
MaxOf(lengths) ==
  CHOOSE m \in Range(lengths) : \A i \in 1..Len(lengths) : lengths[i] <= m

\* the lengths over every row of the result, not the first SampleRows
SampleLengthsOfAllRows(header, res) ==
  [j \in 1..Len(res) |->
     LET row == res[j].data
     IN IF IsString(row[header.name]) THEN Len(row[header.name]) ELSE 10]

\* result.slice(0, 100).map(...): the length of each sampled value, 10 for one
\* that is not a string
SampleLengthsOf(header, res) ==
  [j \in 1..Min2(Len(res), SampleRows) |->
     LET row == res[j].data
     IN IF IsString(row[header.name]) THEN Len(row[header.name]) ELSE 10]

\* getInitialSizeByHeaderType; Math.max() of no value is -Infinity, which
\* Math.min(500, .) keeps and Math.max(150, .) replaces by 150
getInitialSizeByHeaderType(header, res) ==
  IF header.type = "number" THEN 100
  ELSE IF header.type \in {"string", "decimal"}
       THEN LET lengths == SampleLengthsOf(header, res)
            IN IF lengths = << >> THEN 150
               ELSE Max2(150, Min2(500, MaxOf(lengths) * 8))
       ELSE 150

\* headerMemo: name and initialSize of each column
HeaderMemoOf(hs, res) ==
  [k \in 1..Len(hs) |->
     [name |-> hs[k].name,
      initialSize |-> Max2(Len(hs[k].name) * 10,
                           getInitialSizeByHeaderType(hs[k], res))]]

\* ------------------------------------------------------- context menu
MenuClosed ==
  [open |-> FALSE, selectedCell |-> NoCell, removeDisabled |-> TRUE,
   cellDisabled |-> TRUE, discardDisabled |-> TRUE,
   newRowCount |-> 0, selectedRowsIndex |-> << >>, page |-> 0, pageSize |-> 0]

\* disabled: the test on the selection inverted
RemoveDisabledInverted(sel) == Len(sel) # 0

\* disabled: selectedRowsIndex.length === 0
RemoveDisabled(sel) == Len(sel) = 0

\* the cell items without their disabled flag
CellDisabledNever(selectedCell) == FALSE

\* disabled: !selectedCell
CellDisabled(selectedCell) == selectedCell = NoCell

\* disabled only when the collector holds nothing at all
DiscardDisabledByAllPending(ch) ==
  getChangesCount(ch) = 0 /\ colNewRowCount = 0 /\ colRemoved = << >>

\* disabled: !collector.getChangesCount()
DiscardDisabled(ch) == getChangesCount(ch) = 0

\* the items the useContextMenu callback returns, with what its closures hold
BuildMenu(fc, sel, ch, n, p, ps) ==
  LET selectedCell == getFocusCell(fc)
  IN [open |-> TRUE, selectedCell |-> selectedCell,
      removeDisabled |-> RemoveDisabled(sel),
      cellDisabled |-> CellDisabled(selectedCell),
      discardDisabled |-> DiscardDisabled(ch),
      newRowCount |-> n, selectedRowsIndex |-> sel, page |-> p, pageSize |-> ps]

RECURSIVE RemoveSelectedRows(_, _, _, _, _)
\* for (const selectedRowIndex of selectedRowsIndex) collector.removeRow(...)
RemoveSelectedRows(sel, n, p, ps, acc) ==
  IF sel = << >> THEN acc
  ELSE LET arg == RemoveRowArgument(Head(sel), n, p, ps)
       IN RemoveSelectedRows(Tail(sel), n, p, ps,
            [removed |-> removeRow(acc.removed, arg),
             calls |-> Append(acc.calls,
                        Call("removeRow", arg, -1,
                             IF arg \in Range(acc.removed)
                             THEN "already removed" ELSE "marked"))])

\* the walk without its test of the looked-up cell
IsCellAlways(cell) == TRUE

\* if (cell)
IsCell(cell) == cell # NoCell

RECURSIVE DiscardCols(_, _, _, _)
\* for (const col of row.cols) { cell = cellManager.get(row.row, col.col); ... }
DiscardCols(r, cols, cs, acc) ==
  IF cols = << >> THEN acc
  ELSE LET cell == cellManagerGet(cs, r, Head(cols).col)
           got == Append(acc.calls,
                         Call("get", r, Head(cols).col,
                              IF cell = NoCell THEN "undefined" ELSE "cell"))
       IN DiscardCols(r, Tail(cols), cs,
            IF IsCell(cell)
            THEN [changes |-> RemoveChange(acc.changes, cell.row, cell.col),
                  calls |-> Append(got, Call("discard", cell.row, cell.col, ""))]
            ELSE [changes |-> acc.changes, calls |-> got])

RECURSIVE DiscardRows(_, _, _)
\* for (const row of rows)
DiscardRows(rows, cs, acc) ==
  IF rows = << >> THEN acc
  ELSE DiscardRows(Tail(rows), cs, DiscardCols(Head(rows).row, Head(rows).cols, cs, acc))

\* 'Discard All Changes' onClick without its collector.clear()
DiscardAllChangesNoClear(ch, cs) ==
  LET rows == getChanges(ch)
      walked == DiscardRows(rows, cs, [changes |-> ch, calls |-> << >>])
  IN [changes |-> walked.changes, newRowCount |-> colNewRowCount,
      removed |-> colRemoved, calls |-> walked.calls]

\* 'Discard All Changes' onClick: the walk, then collector.clear()
DiscardAllChanges(ch, cs) ==
  LET rows == getChanges(ch)
      walked == DiscardRows(rows, cs, [changes |-> ch, calls |-> << >>])
  IN [changes |-> {}, newRowCount |-> 0, removed |-> << >>,
      calls |-> Append(walked.calls, Call("clear", 0, -1, ""))]

\* ---------------------------------------------------------------- steps
\* a step that is no menu handler
NoCalls == [action |-> "none", calls |-> << >>]

\* the render that follows a state change: data is recomputed when
\* newRowCount changed, headerMemo is the cached one
Render ==
  /\ data' = UseMemo(<< "result", newRowCount >>, << "result", newRowCount' >>,
                     data, ComputeData(newRowCount', headers', result'))
  /\ rendered' = RenderOutcome(absent', newRowCount')
  /\ headerMemo' = UseMemo("result", "result", headerMemo, HeaderMemoOf(headers', result'))

\* the render with another result array passed by the parent
RenderNewResult ==
  /\ data' = UseMemo(<< "result", newRowCount >>, << "new result", newRowCount' >>,
                     data, ComputeData(newRowCount', headers', result'))
  /\ rendered' = RenderOutcome(absent', newRowCount')
  /\ headerMemo' = UseMemo("result", "new result", headerMemo,
                           HeaderMemoOf(headers', result'))

\* cells whose row or column left the grid unmount
CellsFollowData ==
  /\ cells' = { c \in cells : c.row \in RowIds(data') /\ c.col < Len(headers') }
  /\ focusCell' = IF focusCell \in cells' THEN focusCell ELSE NoCell

\* the subscriber runs when the handler mutated the collector
Notify(mutated) ==
  IF mutated /\ "onChangeUpdate" \in colSubs
  THEN LET u == onChangeUpdate(colNewRowCount', colRemoved')
       IN /\ newRowCount' = u.newRowCount
          /\ removeRowsIndex' = u.removeRowsIndex
  ELSE UNCHANGED << newRowCount, removeRowsIndex >>

Idle == mounted /\ ~menu.open

\* what the session holds at once; the steps that add to it keep it small
Load(count, removed, ch, cs, sel) ==
  count + Len(removed) + Cardinality(ch) + Cardinality(cs) + Len(sel)

WithinLoad ==
  Load(colNewRowCount', colRemoved', colChanges', cells', selectedRowsIndex') <= MaxLoad

Init ==
  /\ headers \in HeaderChoices
  /\ page = 0
  /\ pageSize \in PageSizes
  /\ result \in ResultChoices(headers, page, pageSize)
  /\ mounted = TRUE
  /\ newRowCount = 0
  /\ selectedRowsIndex = << >>
  /\ removeRowsIndex = << >>
  /\ absent = {}
  /\ data = ComputeData(0, headers, result)
  /\ rendered = RenderOutcome(absent, 0)
  /\ headerMemo = HeaderMemoOf(headers, result)
  /\ colNewRowCount = 0
  /\ colRemoved = << >>
  /\ colChanges = {}
  /\ colSubs = {"onChangeUpdate"}
  /\ oldSubs = {}
  /\ cells = {}
  /\ focusCell = NoCell
  /\ clipboard = Unset
  /\ menu = MenuClosed
  /\ last = NoCalls

\* handleSelectedRowsChange: the grid reports the selected display positions
SelectRows ==
  /\ Idle
  /\ \E S \in SUBSET (0..(Len(data) - 1)) :
       /\ Cardinality(S) <= MaxSelected
       /\ selectedRowsIndex' = SortedSeq(S)
       /\ selectedRowsIndex' # selectedRowsIndex
  /\ last' = NoCalls
  /\ UNCHANGED << props, mounted, newRowCount, removeRowsIndex, data, rendered, headerMemo,
                  collectorState, cellState, menu >>
  /\ WithinLoad

\* handleContextMenu: the menu is built from the current state
OpenContextMenu ==
  /\ Idle
  /\ menu' = BuildMenu(focusCell, selectedRowsIndex, colChanges,
                       newRowCount, page, pageSize)
  /\ last' = NoCalls
  /\ UNCHANGED << props, viewState, data, rendered, headerMemo, collectorState, cellState >>

\* the menu is dismissed without a click
DismissMenu ==
  /\ menu.open
  /\ menu' = MenuClosed
  /\ last' = NoCalls
  /\ UNCHANGED << props, viewState, data, rendered, headerMemo, collectorState, cellState >>

\* 'Insert new row' onClick
ClickInsertNewRow ==
  /\ menu.open
  /\ colNewRowCount < MaxNewRows
  /\ colNewRowCount' = createNewRow(colNewRowCount)
  /\ UNCHANGED << colRemoved, colChanges, colSubs, oldSubs >>
  /\ Notify(TRUE)
  /\ menu' = MenuClosed
  /\ last' = [action |-> "InsertNewRow", calls |-> << Call("createNewRow", 0, -1, "") >>]
  /\ UNCHANGED << props, mounted, selectedRowsIndex, clipboard >>
  /\ Render
  /\ CellsFollowData
  /\ WithinLoad

\* 'Remove selected rows' onClick
ClickRemoveSelectedRows ==
  /\ menu.open
  /\ LET done == RemoveSelectedRows(menu.selectedRowsIndex, menu.newRowCount,
                                    menu.page, menu.pageSize,
                                    [removed |-> colRemoved, calls |-> << >>])
     IN /\ Len(done.removed) <= MaxRemoved
        /\ colRemoved' = done.removed
        /\ last' = [action |-> "RemoveSelectedRows", calls |-> done.calls]
        /\ UNCHANGED << colNewRowCount, colChanges, colSubs, oldSubs >>
        /\ Notify(done.calls # << >>)
  /\ menu' = MenuClosed
  /\ UNCHANGED << props, mounted, selectedRowsIndex, clipboard >>
  /\ Render
  /\ CellsFollowData
  /\ WithinLoad

\* selectedCell?.insert(null) / .copy() / .paste(): the call, if there is a cell
OptionalCall(selectedCell, o, v) ==
  IF selectedCell # NoCell
  THEN << Call(o, selectedCell.row, selectedCell.col, v) >>
  ELSE << >>

\* 'Insert NULL' onClick
ClickInsertNull ==
  /\ menu.open
  /\ LET calls == OptionalCall(menu.selectedCell, "insert", Null)
     IN /\ last' = [action |-> "InsertNull", calls |-> calls]
        /\ IF calls # << >>
           THEN /\ colChanges' = SetChange(colChanges, calls[1].row, calls[1].col, Null)
                /\ Cardinality(colChanges') <= MaxChanges
           ELSE UNCHANGED colChanges
        /\ UNCHANGED << colNewRowCount, colRemoved, colSubs, oldSubs >>
        /\ Notify(calls # << >>)
  /\ menu' = MenuClosed
  /\ UNCHANGED << props, mounted, selectedRowsIndex, cellState >>
  /\ Render
  /\ WithinLoad

\* 'Copy' onClick
ClickCopy ==
  /\ menu.open
  /\ LET calls == OptionalCall(menu.selectedCell, "copy", "")
     IN /\ last' = [action |-> "Copy", calls |-> calls]
        /\ clipboard' = IF calls # << >>
                        THEN CellValue(colChanges, data, headers, menu.selectedCell)
                        ELSE clipboard
  /\ menu' = MenuClosed
  /\ UNCHANGED << props, viewState, data, rendered, headerMemo, collectorState, cells, focusCell >>

\* 'Paste' onClick
ClickPaste ==
  /\ menu.open
  /\ LET calls == OptionalCall(menu.selectedCell, "paste", "")
         applies == calls # << >> /\ clipboard # Unset
     IN /\ last' = [action |-> "Paste", calls |-> calls]
        /\ IF applies
           THEN /\ colChanges' = SetChange(colChanges, calls[1].row, calls[1].col, clipboard)
                /\ Cardinality(colChanges') <= MaxChanges
           ELSE UNCHANGED colChanges
        /\ UNCHANGED << colNewRowCount, colRemoved, colSubs, oldSubs >>
        /\ Notify(applies)
  /\ menu' = MenuClosed
  /\ UNCHANGED << props, mounted, selectedRowsIndex, cellState >>
  /\ Render
  /\ WithinLoad

\* 'Discard All Changes' onClick
ClickDiscardAllChanges ==
  /\ menu.open
  /\ LET done == DiscardAllChanges(colChanges, cells)
     IN /\ colChanges' = done.changes
        /\ colNewRowCount' = done.newRowCount
        /\ colRemoved' = done.removed
        /\ last' = [action |-> "DiscardAllChanges", calls |-> done.calls]
  /\ UNCHANGED << colSubs, oldSubs >>
  /\ Notify(TRUE)
  /\ menu' = MenuClosed
  /\ UNCHANGED << props, mounted, selectedRowsIndex, clipboard >>
  /\ Render
  /\ CellsFollowData

\* what renderCell hands back: a TableCell, the empty fragment, or a TypeError
\* raised while reading a property of undefined
EmptyRender == [empty |-> TRUE, threw |-> FALSE, row |-> 0, col |-> -1, value |-> Unset]
Thrown == [empty |-> FALSE, threw |-> TRUE, row |-> 0, col |-> -1, value |-> Unset]

\* renderCell without the test on data[y]
renderCellUnguarded(d, hs, y, x) ==
  IF y + 1 \in DOMAIN d /\ x + 1 \in DOMAIN hs
  THEN [empty |-> FALSE, threw |-> FALSE, row |-> d[y + 1].rowIndex, col |-> x,
        value |-> d[y + 1].data[hs[x + 1].name]]
  ELSE Thrown

\* renderCell(y, x): the cell of that display position, or the empty render;
\* headers[x].name is read only when data[y] exists
renderCell(d, hs, y, x) ==
  IF y + 1 \in DOMAIN d
  THEN IF x + 1 \in DOMAIN hs
       THEN [empty |-> FALSE, threw |-> FALSE, row |-> d[y + 1].rowIndex, col |-> x,
             value |-> d[y + 1].data[hs[x + 1].name]]
       ELSE Thrown
  ELSE EmptyRender

\* the grid asks for the cell at (y, x) and mounts what renderCell returns
MountCell ==
  /\ Idle
  /\ \E y \in 0..Len(data), x \in 0..(Len(headers) - 1) :
       LET r == renderCell(data, headers, y, x)
       IN IF r.empty \/ r.threw
          THEN UNCHANGED cells
          ELSE /\ Cell(r.row, r.col) \notin cells
               /\ Cardinality(cells) < MaxMounted
               /\ cells' = cells \cup { Cell(r.row, r.col) }
  /\ last' = NoCalls
  /\ UNCHANGED << props, viewState, data, rendered, headerMemo, collectorState, focusCell, clipboard, menu >>
  /\ WithinLoad

\* the grid scrolls a cell out of its window
UnmountCell ==
  /\ Idle
  /\ \E c \in cells :
       /\ cells' = cells \ {c}
       /\ focusCell' = IF focusCell = c THEN NoCell ELSE focusCell
  /\ last' = NoCalls
  /\ UNCHANGED << props, viewState, data, rendered, headerMemo, collectorState, clipboard, menu >>

\* the user focuses a mounted cell, or none
FocusCell ==
  /\ Idle
  /\ \E c \in cells \cup {NoCell} :
       /\ c # focusCell
       /\ focusCell' = c
  /\ last' = NoCalls
  /\ UNCHANGED << props, viewState, data, rendered, headerMemo, collectorState, cells, clipboard, menu >>

\* a mounted cell with a pending edit discards it: cell.discard()
DiscardCell ==
  /\ Idle
  /\ \E c \in cells :
       /\ HasChange(colChanges, c.row, c.col)
       /\ colChanges' = RemoveChange(colChanges, c.row, c.col)
       /\ last' = [action |-> "CellDiscard", calls |-> << Call("discard", c.row, c.col, "") >>]
  /\ UNCHANGED << colNewRowCount, colRemoved, colSubs, oldSubs >>
  /\ Notify(TRUE)
  /\ UNCHANGED << props, mounted, selectedRowsIndex, cellState, menu >>
  /\ Render

\* the parent passes another page of the result
ChangePage ==
  /\ Idle
  /\ \E p \in 0..MaxPage :
       /\ p # page
       /\ page' = p
       /\ result' \in ResultChoices(headers, p, pageSize)
  /\ UNCHANGED << headers, pageSize, absent >>
  /\ UNCHANGED << mounted, newRowCount, selectedRowsIndex, removeRowsIndex >>
  /\ last' = NoCalls
  /\ UNCHANGED << collectorState, clipboard, menu >>
  /\ RenderNewResult
  /\ CellsFollowData

\* the parent passes the result of another query
NewResult ==
  /\ Idle
  /\ headers' \in HeaderChoices
  /\ page' = 0
  /\ result' \in ResultChoices(headers', 0, pageSize)
  /\ UNCHANGED << pageSize, absent >>
  /\ UNCHANGED << mounted, newRowCount, selectedRowsIndex, removeRowsIndex >>
  /\ last' = NoCalls
  /\ UNCHANGED << collectorState, clipboard, menu >>
  /\ RenderNewResult
  /\ CellsFollowData

\* the effect's cleanup without the unregisterChange
EffectCleanupNone(subs) == subs

\* the effect's cleanup: collector.unregisterChange(onChangeUpdate), with the
\* collector and the callback of the effect run being cleaned up
EffectCleanup(subs) == subs \ {"onChangeUpdate"}

\* the effect: collector.registerChange(onChangeUpdate)
EffectSetup(subs) == subs \cup {"onChangeUpdate"}

\* the context supplies another collector: the effect's cleanup unregisters
\* from the old one and the effect registers with the new one
ReplaceCollector ==
  /\ Idle
  /\ colNewRowCount' = 0
  /\ colRemoved' = << >>
  /\ colChanges' = {}
  /\ oldSubs' = oldSubs \cup EffectCleanup(colSubs)
  /\ colSubs' = EffectSetup({})
  /\ last' = NoCalls
  /\ UNCHANGED << props, viewState, data, rendered, headerMemo, cellState, menu >>

\* the component unmounts: the effect's cleanup runs, its state is dropped
Unmount ==
  /\ Idle
  /\ mounted' = FALSE
  /\ colSubs' = EffectCleanup(colSubs)
  /\ newRowCount' = 0
  /\ selectedRowsIndex' = << >>
  /\ removeRowsIndex' = << >>
  /\ data' = << >>
  /\ rendered' = "none"
  /\ headerMemo' = << >>
  /\ cells' = {}
  /\ focusCell' = NoCell
  /\ last' = NoCalls
  /\ UNCHANGED << props, colNewRowCount, colRemoved, colChanges, oldSubs, clipboard, menu >>

\* the component mounts: useState initial values, then the effect registers
Mount ==
  /\ ~mounted
  /\ mounted' = TRUE
  /\ newRowCount' = 0
  /\ selectedRowsIndex' = << >>
  /\ removeRowsIndex' = << >>
  /\ data' = ComputeData(0, headers, result)
  /\ rendered' = RenderOutcome(absent, 0)
  /\ headerMemo' = HeaderMemoOf(headers, result)
  /\ colSubs' = EffectSetup(colSubs)
  /\ last' = NoCalls
  /\ UNCHANGED << props, colNewRowCount, colRemoved, colChanges, oldSubs, cellState, menu >>

\* another holder of the context's collector creates a row or clears it while
\* the component is unmounted; a callback still registered runs
MutateOutlivedCollector ==
  /\ ~mounted
  /\ \E op \in {"createNewRow", "clear"} :
       /\ colNewRowCount' = IF op = "clear" THEN 0 ELSE createNewRow(colNewRowCount)
       /\ colRemoved' = IF op = "clear" THEN << >> ELSE colRemoved
       /\ colChanges' = IF op = "clear" THEN {} ELSE colChanges
  /\ colNewRowCount' <= MaxNewRows
  /\ UNCHANGED << colSubs, oldSubs >>
  /\ Notify(TRUE)
  /\ last' = NoCalls
  /\ UNCHANGED << props, mounted, selectedRowsIndex, data, rendered, headerMemo, cellState, menu >>
  /\ WithinLoad

\* a holder of a collector the context no longer supplies mutates it, leaving
\* it with count new rows; a callback still registered with it runs and reads
\* that collector
MutateReplacedCollector ==
  /\ Idle
  /\ \E count \in 0..MaxNewRows :
       IF "onChangeUpdate" \in oldSubs
       THEN LET u == onChangeUpdate(count, << >>)
            IN /\ newRowCount' = u.newRowCount
               /\ removeRowsIndex' = u.removeRowsIndex
       ELSE UNCHANGED << newRowCount, removeRowsIndex >>
  /\ last' = NoCalls
  /\ UNCHANGED << props, mounted, selectedRowsIndex, collectorState, clipboard, menu >>
  /\ Render
  /\ CellsFollowData

\* the user's steps on rows and the menu
RowSteps ==
  \/ SelectRows
  \/ OpenContextMenu
  \/ DismissMenu
  \/ ClickInsertNewRow
  \/ ClickRemoveSelectedRows
  \/ ClickDiscardAllChanges

\* the grid's and the user's steps on cells
CellSteps ==
  \/ MountCell
  \/ UnmountCell
  \/ FocusCell
  \/ ClickInsertNull
  \/ ClickCopy
  \/ ClickPaste
  \/ DiscardCell

\* the parent's and the context's steps
LifecycleSteps ==
  \/ ChangePage
  \/ NewResult
  \/ ReplaceCollector
  \/ MutateOutlivedCollector
  \/ MutateReplacedCollector
  \/ Unmount
  \/ Mount

Next == RowSteps \/ LifecycleSteps

NextEdit == RowSteps \/ CellSteps

\* rows, pages, collectors and mounts, with no cell mounted
Spec == Init /\ [][Next]_vars

\* rows and cells on the first page of one result, under one collector
SpecEdit == Init /\ [][NextEdit]_vars

\* ------------------------------------------------------ one render pass
\* the string of n characters
RECURSIVE StringOfLength(_)
StringOfLength(n) == IF n = 0 THEN "" ELSE "x" \o StringOfLength(n - 1)

\* the lengths of the string values a fetched column holds
ValueLengths == {0, 18, 19, 60, 62, 63}

\* the values of a fetched column: strings, and null
ValueChoices == { StringOfLength(l) : l \in ValueLengths } \cup {Null}

\* single-column header lists: short and long names, each declared type
ColumnChoices ==
  { << [name |-> nm, type |-> ty] >> :
      nm \in {"c", "customer_id", StringOfLength(16), StringOfLength(51)},
      ty \in {"number", "string", "decimal", "date"} }

\* a fetched row whose columns all hold v
FetchedRowOf(i, hs, v) == [rowIndex |-> i, data |-> [n \in HeaderNames(hs) |-> v]]

\* the results of the first page the parent can pass: none, one or two rows
\* of the values, and SampleRows + 1 one-character rows of which row at holds
\* a 60-character string
RowsChoices(hs) ==
  { << >> }
  \cup { << FetchedRowOf(0, hs, v) >> : v \in ValueChoices }
  \cup { << FetchedRowOf(0, hs, v), FetchedRowOf(1, hs, w) >> :
           v \in {StringOfLength(19), Null}, w \in ValueChoices }
  \cup { [j \in 1..(SampleRows + 1) |->
            FetchedRowOf(j - 1, hs, StringOfLength(IF j = at THEN 60 ELSE 1))] :
           at \in {SampleRows, SampleRows + 1} }

\* the component, holding n new rows, is about to render with the props the
\* parent passes; an absent prop is undefined
InitRender ==
  /\ absent \in SUBSET {"headers", "result"}
  /\ headers \in IF "headers" \in absent THEN { << >> }
                 ELSE HeaderChoices \cup ColumnChoices
  /\ page = 0
  /\ pageSize \in PageSizes
  /\ result \in IF absent # {} THEN { << >> } ELSE RowsChoices(headers)
  /\ mounted = TRUE
  /\ newRowCount \in 0..MaxNewRows
  /\ selectedRowsIndex = << >>
  /\ removeRowsIndex = << >>
  /\ data = << >>
  /\ rendered = "none"
  /\ headerMemo = << >>
  /\ colNewRowCount = newRowCount
  /\ colRemoved = << >>
  /\ colChanges = {}
  /\ colSubs = {"onChangeUpdate"}
  /\ oldSubs = {}
  /\ cells = {}
  /\ focusCell = NoCell
  /\ clipboard = Unset
  /\ menu = MenuClosed
  /\ last = NoCalls

\* the function body runs once: the data memo, the test on headers and
\* result, then headerMemo
RenderPass ==
  /\ rendered = "none"
  /\ rendered' = RenderOutcome(absent, newRowCount)
  /\ data' = IF rendered' = "TypeError" THEN data
             ELSE ComputeData(newRowCount, headers, result)
  /\ headerMemo' = IF rendered' = "table" THEN HeaderMemoOf(headers, result)
                   ELSE headerMemo
  /\ UNCHANGED << props, viewState, collectorState, cellState, menu, last >>

NextRender == RenderPass

SpecRender == InitRender /\ [][NextRender]_vars

\* ============================================================ properties

\* C1: in every state of the mounted component the display sequence is the
\* synthetic rows -1, -2, ..., -n in that order (n the component's new-row
\* count), each mapping every header name to the unset value, followed by
\* the fetched rows in their order; no fetched row precedes a synthetic row.
C1_DisplaySequence ==
  mounted =>
    /\ Len(data) = newRowCount + Len(result)
    /\ \A k \in 1..newRowCount :
         /\ data[k].rowIndex = -k
         /\ DOMAIN data[k].data = HeaderNames(headers)
         /\ \A h \in HeaderNames(headers) : data[k].data[h] = Unset
    /\ \A j \in 1..Len(result) : data[newRowCount + j] = result[j]
    /\ \A i, j \in 1..Len(data) :
         (data[i].rowIndex >= 0 /\ data[j].rowIndex < 0) => j < i

\* two synthetic rows above two fetched rows, after a removal and a clear
C1_Witness ==
  /\ mounted
  /\ newRowCount = 2
  /\ Len(result) = 2
  /\ colRemoved # << >>
  /\ selectedRowsIndex # << >>

\* C2 as stated: every removed identity r that names a displayed row is
\* tombstoned at (new-row count) + r when r >= 0 and at -r - 1 when r < 0, and
\* the new-row positions are 0..N-1.
C2_AsStated ==
  mounted =>
    /\ newRowsIndex = [k \in 1..newRowCount |-> k - 1]
    /\ \A k \in 1..Len(removeRowsIndex) :
         LET r == removeRowsIndex[k]
         IN r \in RowIds(data) =>
              relativeRemoveRowsIndex[k] = IF r >= 0 THEN newRowCount + r ELSE -r - 1

\* C2 amended: every removed identity r is tombstoned at the index of the row
\* of identity r in the display sequence: -r - 1 for a synthetic row that is
\* displayed, (new-row count) + j for the j-th fetched row (which is
\* (new-row count) + r - page * pageSize, so (new-row count) + r on page 0),
\* and -1 when no displayed row has identity r; the k-th created row is at
\* position k and the new-row positions are 0..N-1.
C2_DisplayIndexOf ==
  mounted =>
    /\ newRowsIndex = [k \in 1..newRowCount |-> k - 1]
    /\ \A k \in 1..newRowCount : data[newRowsIndex[k] + 1].rowIndex = -k
    /\ \A k \in 1..Len(removeRowsIndex) :
         LET r == removeRowsIndex[k]
             at == relativeRemoveRowsIndex[k]
         IN /\ (r < 0 /\ -r <= newRowCount) => at = -r - 1
            /\ \A j \in 1..Len(result) :
                 result[j].rowIndex = r =>
                   /\ at = newRowCount + (j - 1)
                   /\ at = newRowCount + r - page * pageSize
            /\ (r < 0 /\ -r > newRowCount) => at = -1
            /\ (r >= 0 /\ \A j \in 1..Len(result) : result[j].rowIndex # r) => at = -1

\* a fetched row of page 1 and a synthetic row are both tombstoned
C2_Witness ==
  /\ mounted
  /\ page = 1
  /\ newRowCount = 2
  /\ \E k \in 1..Len(removeRowsIndex) :
       removeRowsIndex[k] >= 2 /\ relativeRemoveRowsIndex[k] >= 2
  /\ \E k \in 1..Len(removeRowsIndex) :
       removeRowsIndex[k] = -2 /\ relativeRemoveRowsIndex[k] = 1

\* C3: 'Remove selected rows' calls collector.removeRow, for each selected
\* display position d in turn, with d - n when d - n < 0 and with
\* d - n + page * pageSize otherwise (n, page, pageSize as they are at the click).
C3_RemoveRowTranslation ==
  [][ (menu.open /\ last'.action = "RemoveSelectedRows") =>
        /\ Len(last'.calls) = Len(selectedRowsIndex)
        /\ \A i \in 1..Len(selectedRowsIndex) :
             LET d == selectedRowsIndex[i]
             IN /\ last'.calls[i].op = "removeRow"
                /\ last'.calls[i].row = IF d - newRowCount < 0
                                        THEN d - newRowCount
                                        ELSE d - newRowCount + page * pageSize
    ]_vars

\* on page 1 with a synthetic row, a removal passed an identity offset by the
\* page
C3_Witness ==
  /\ last.action = "RemoveSelectedRows"
  /\ page = 1
  /\ newRowCount >= 1
  /\ \E i \in 1..Len(last.calls) :
       last.calls[i].row = selectedRowsIndex[i] - newRowCount + page * pageSize
  /\ \E i \in 1..Len(last.calls) : last.calls[i].row >= pageSize

\* C4: right after 'Discard All Changes' (collector.clear()), whatever was
\* created, removed and edited before, the collector holds no pending edit,
\* no new row and no removed identity, and the view follows: the display
\* sequence is exactly the fetched rows and the new-row and removed-row
\* position lists are empty.
C4_ClearResets ==
  last.action = "DiscardAllChanges" =>
    /\ getChanges(colChanges) = << >>
    /\ colChanges = {}
    /\ colNewRowCount = 0
    /\ colRemoved = << >>
    /\ newRowCount = 0
    /\ removeRowsIndex = << >>
    /\ data = result
    /\ newRowsIndex = << >>
    /\ relativeRemoveRowsIndex = << >>

\* a discard that walked a mounted and an unmounted pending edit, then cleared
C4_Witness ==
  /\ last.action = "DiscardAllChanges"
  /\ \E i \in 1..Len(last.calls) : last.calls[i].op = "discard"
  /\ \E i \in 1..Len(last.calls) : last.calls[i].val = "undefined"
  /\ result # << >>
  /\ selectedRowsIndex # << >>

\* C5: after a handler that called createNewRow, removeRow or clear, the
\* view's new-row count and removed list are both the collector's
\* post-mutation ones.
C5_ViewFollowsCollector ==
  (/\ last.action \in {"InsertNewRow", "RemoveSelectedRows", "DiscardAllChanges"}
   /\ last.calls # << >>) =>
    /\ newRowCount = colNewRowCount
    /\ removeRowsIndex = colRemoved

\* a removal notified a view that shows new rows
C5_Witness ==
  /\ last.action = "RemoveSelectedRows"
  /\ last.calls # << >>
  /\ colNewRowCount = 2
  /\ newRowCount = 2
  /\ removeRowsIndex # << >>

\* C6: 'Remove selected rows' on a selection whose identities are all marked
\* removed already leaves the removed identities, the new-row count and the
\* pending edits as they were.
C6_RemoveIdempotent ==
  [][ (/\ menu.open
       /\ last'.action = "RemoveSelectedRows"
       /\ selectedRowsIndex # << >>
       /\ \A i \in 1..Len(selectedRowsIndex) :
            LET d == selectedRowsIndex[i]
            IN (IF d - newRowCount < 0
                THEN d - newRowCount
                ELSE d - newRowCount + page * pageSize) \in Range(colRemoved)) =>
        /\ colRemoved' = colRemoved
        /\ colNewRowCount' = colNewRowCount
        /\ colChanges' = colChanges
        /\ removeRowsIndex' = colRemoved
    ]_vars

\* a second removal of a removed row, with a new row and a pending edit held
C6_Witness ==
  /\ last.action = "RemoveSelectedRows"
  /\ last.calls # << >>
  /\ \A i \in 1..Len(last.calls) : last.calls[i].val = "already removed"
  /\ colNewRowCount > 0
  /\ colChanges # {}

\* C7: 'Discard All Changes' looks up every pending edit once, calls
\* discard() exactly once on each pending edit whose cell is mounted and on
\* no other cell, skips the others, and calls collector.clear() once, last.
C7_DiscardWalk ==
  [][ (menu.open /\ last'.action = "DiscardAllChanges") =>
        LET calls == last'.calls
            At(i) == Cell(calls[i].row, calls[i].col)
            pending == { Cell(e.row, e.col) : e \in colChanges }
            gets == { i \in 1..Len(calls) : calls[i].op = "get" }
            discards == { i \in 1..Len(calls) : calls[i].op = "discard" }
        IN /\ \A c \in pending : Cardinality({ i \in gets : At(i) = c }) = 1
           /\ \A c \in pending \cap cells :
                Cardinality({ i \in discards : At(i) = c }) = 1
           /\ \A i \in discards : At(i) \in pending \cap cells
           /\ Len(calls) = Cardinality(gets) + Cardinality(discards) + 1
           /\ calls[Len(calls)].op = "clear"
           /\ colChanges' = {}
    ]_vars

\* a walk over two pending edits, one mounted and discarded, one not mounted
C7_Witness ==
  /\ last.action = "DiscardAllChanges"
  /\ Len(last.calls) = 4
  /\ \E i \in 1..Len(last.calls) : last.calls[i].op = "discard"
  /\ \E i \in 1..Len(last.calls) :
       last.calls[i].op = "get" /\ last.calls[i].val = "undefined"

\* C8: while the built menu is open, 'Discard All Changes' is disabled if and
\* only if the collector holds no pending cell edit.
C8_DiscardDisabled ==
  menu.open => (menu.discardDisabled <=> Cardinality(colChanges) = 0)

\* disabled with a new row and a removed row, but no cell edit
C8_Witness ==
  /\ menu.open
  /\ menu.discardDisabled
  /\ colNewRowCount > 0
  /\ colRemoved # << >>

\* C9: the built 'Remove selected rows' is disabled exactly when the
\* selection is empty; clicked with an empty selection it calls nothing and
\* leaves the collector as it was; otherwise it calls removeRow once per
\* selected display position, in order.
C9_RemoveSelection ==
  [][ /\ menu'.open => (menu'.removeDisabled <=> selectedRowsIndex' = << >>)
      /\ (menu.open /\ last'.action = "RemoveSelectedRows") =>
           /\ menu.removeDisabled <=> selectedRowsIndex = << >>
           /\ Len(last'.calls) = Len(selectedRowsIndex)
           /\ \A i \in 1..Len(last'.calls) : last'.calls[i].op = "removeRow"
           /\ selectedRowsIndex = << >> =>
                /\ colRemoved' = colRemoved
                /\ colNewRowCount' = colNewRowCount
                /\ colChanges' = colChanges
    ]_vars

\* the disabled item clicked with an empty selection over a collector that
\* holds a new row, a removed row and an edit
C9_Witness ==
  /\ last.action = "RemoveSelectedRows"
  /\ last.calls = << >>
  /\ selectedRowsIndex = << >>
  /\ colNewRowCount > 0
  /\ colRemoved # << >>
  /\ colChanges # {}

\* C10: the built 'Insert NULL', 'Copy' and 'Paste' are disabled exactly when
\* no cell is focused; clicked, each makes its one call on the focused cell
\* and leaves every other cell's pending edit alone; with no focused cell it
\* calls nothing and changes neither the pending edits nor the clipboard.
C10_FocusedCellItems ==
  [][ /\ menu'.open =>
           /\ menu'.cellDisabled <=> focusCell' = NoCell
           /\ menu'.selectedCell = focusCell'
      /\ \A item \in { << "InsertNull", "insert", Null >>,
                       << "Copy", "copy", "" >>,
                       << "Paste", "paste", "" >> } :
           (menu.open /\ last'.action = item[1]) =>
             IF focusCell = NoCell
             THEN /\ menu.cellDisabled
                  /\ last'.calls = << >>
                  /\ colChanges' = colChanges
                  /\ clipboard' = clipboard
             ELSE /\ ~menu.cellDisabled
                  /\ last'.calls =
                       << Call(item[2], focusCell.row, focusCell.col, item[3]) >>
                  /\ { e \in colChanges' : Cell(e.row, e.col) # focusCell }
                       = { e \in colChanges : Cell(e.row, e.col) # focusCell }
                  /\ item[1] = "InsertNull" =>
                       [row |-> focusCell.row, col |-> focusCell.col,
                        value |-> Null] \in colChanges'
    ]_vars

\* NULL inserted into the focused one of two mounted cells, the other
\* holding its own pending edit
C10_Witness ==
  /\ last.action = "InsertNull"
  /\ last.calls # << >>
  /\ Cardinality(cells) = 2
  /\ Cardinality(colChanges) = 2
  /\ \A e \in colChanges : Cell(e.row, e.col) \in cells

\* C17: 'Remove selected rows' passes, for every selected display position d
\* that shows a row, the rowIndex of the row displayed at d.
C17_RemovesDisplayedRow ==
  [][ (menu.open /\ last'.action = "RemoveSelectedRows") =>
        \A i \in 1..Len(selectedRowsIndex) :
          LET d == selectedRowsIndex[i]
          IN d + 1 \in DOMAIN data => last'.calls[i].row = data[d + 1].rowIndex
    ]_vars

\* C19: every removed-row position handed to the grid is a position of the
\* display sequence, and the row displayed there has a removed identity.
C19_RemovedPositionsValid ==
  mounted =>
    \A k \in 1..Len(relativeRemoveRowsIndex) :
      LET at == relativeRemoveRowsIndex[k]
      IN /\ 0 <= at
         /\ at < Len(data)
         /\ data[at + 1].rowIndex \in Range(removeRowsIndex)

\* C20: whenever the component is mounted and no handler is running, its
\* new-row count and removed list are the collector's.
C20_ViewMirrorsCollector ==
  mounted =>
    /\ newRowCount = colNewRowCount
    /\ removeRowsIndex = colRemoved

\* C12: for every display position the grid can ask for, positions at and
\* beyond the end included, and every column of the grid, renderCell raises
\* nothing and returns the empty render or a cell bound to a row of the
\* display sequence.
C12_RenderCellTotal ==
  mounted =>
    \A y \in 0..(Len(data) + 1), x \in 0..(Len(headers) - 1) :
      LET r == renderCell(data, headers, y, x)
      IN /\ ~r.threw
         /\ r.empty <=> y >= Len(data)
         /\ ~r.empty => /\ r.row \in { data[i].rowIndex : i \in 1..Len(data) }
                        /\ r.col = x

\* the grid mounted cells of a synthetic row and of a fetched row
C12_Witness ==
  /\ mounted
  /\ \E c \in cells : c.row < 0
  /\ \E c \in cells : c.row >= 0
  /\ Len(data) = 4

\* C15: with n the view's new-row count and F the fetched rows, the cell at
\* display position y is bound to the synthetic row -(y + 1) with every
\* column unset when 0 <= y < n, to F[y - n] when n <= y < n + |F|, and is
\* the empty render otherwise.
C15_ResolveLogicalRow ==
  mounted =>
    \A y \in 0..(newRowCount + Len(result) + 1), x \in 0..(Len(headers) - 1) :
      LET r == renderCell(data, headers, y, x)
          n == newRowCount
      IN IF y < n
         THEN r = [empty |-> FALSE, threw |-> FALSE, row |-> -(y + 1), col |-> x,
                   value |-> Unset]
         ELSE IF y < n + Len(result)
              THEN LET f == result[y - n + 1]
                   IN r = [empty |-> FALSE, threw |-> FALSE, row |-> f.rowIndex,
                           col |-> x, value |-> f.data[headers[x + 1].name]]
              ELSE r.empty

\* two rows were created after the first render, and the grid mounted the
\* cell of the second synthetic row and a cell of a fetched row
C15_Witness ==
  /\ mounted
  /\ newRowCount = 2
  /\ Len(result) = 2
  /\ Cell(-2, 0) \in cells
  /\ \E c \in cells : c.row >= 0

\* C16: the component's callback is registered with the context's collector
\* exactly while the component is mounted and with no other collector, over
\* every mount, collector replacement and unmount; a mutation of a collector
\* it outlived or that was replaced leaves its new-row count and removed list
\* alone.
C16_SubscriptionPairing ==
  [][ /\ oldSubs' = {}
      /\ colSubs' = IF mounted' THEN {"onChangeUpdate"} ELSE {}
      /\ (~mounted /\ ~mounted') => UNCHANGED << newRowCount, removeRowsIndex >>
      /\ (mounted /\ mounted' /\ newRowCount' # newRowCount) =>
           newRowCount' = colNewRowCount'
    ]_vars

\* the collector was replaced under a view showing two new rows, and the
\* component is registered with the new one
C16_Witness ==
  /\ mounted
  /\ newRowCount = 2
  /\ colNewRowCount = 0
  /\ colSubs = {"onChangeUpdate"}
  /\ oldSubs = {}

\* C14: insert(v) on a cell leaves every other pending edit as it was and
\* shows v; discard() on a cell with a pending edit removes that cell's entry
\* from the changes, shows the value of the row as fetched (unset for a
\* created row) and leaves every other cell's pending edit, the created-row
\* count and the removed identities as they were.
C14_InsertDiscardRoundTrip ==
  [][ /\ (menu.open /\ last'.action = "InsertNull" /\ last'.calls # << >>) =>
           LET c == last'.calls[1]
           IN /\ [row |-> c.row, col |-> c.col, value |-> Null] \in colChanges'
              /\ \A e \in colChanges' \cup colChanges :
                   (e.row = c.row /\ e.col = c.col) \/ (e \in colChanges' /\ e \in colChanges)
              /\ CellValue(colChanges', data', headers', Cell(c.row, c.col)) = Null
      /\ (~menu.open /\ last'.action = "CellDiscard") =>
           LET c == last'.calls[1]
           IN /\ \E e \in colChanges : e.row = c.row /\ e.col = c.col
              /\ \A e \in colChanges' : ~(e.row = c.row /\ e.col = c.col)
              /\ \A e \in colChanges :
                   (e.row = c.row /\ e.col = c.col) \/ e \in colChanges'
              /\ colChanges' \subseteq colChanges
              /\ CellValue(colChanges', data', headers', Cell(c.row, c.col)) =
                   IF c.row < 0
                   THEN Unset
                   ELSE (CHOOSE f \in Range(result) : f.rowIndex = c.row).data[headers[c.col + 1].name]
              /\ colNewRowCount' = colNewRowCount
              /\ colRemoved' = colRemoved
              /\ newRowCount' = newRowCount
              /\ removeRowsIndex' = removeRowsIndex
    ]_vars

\* a cell of a fetched row discarded its edit while another cell of the same
\* row keeps its own and a created row is pending
C14_Witness ==
  /\ last.action = "CellDiscard"
  /\ last.calls[1].row >= 0
  /\ \E e \in colChanges : e.row = last.calls[1].row /\ e.value = Null
  /\ colNewRowCount = 1

\* C18: an insertion of a new row leaves the selection on the rows it was
\* on: every selected position that showed a row before 'Insert new row'
\* is still selected, as a position that shows that same row, after it, so
\* that a later 'Remove selected rows' removes the rows the user selected.
C18_SelectionFollowsRows ==
  [][ (menu.open /\ last'.action = "InsertNewRow") =>
        /\ Len(selectedRowsIndex') = Len(selectedRowsIndex)
        /\ \A i \in 1..Len(selectedRowsIndex) :
             LET d == selectedRowsIndex[i]
                 e == selectedRowsIndex'[i]
             IN d + 1 \in DOMAIN data =>
                  /\ e + 1 \in DOMAIN data'
                  /\ data'[e + 1].rowIndex = data[d + 1].rowIndex
    ]_vars

\* C11: when headers or result is absent the render returns 'No result' and
\* raises nothing.
C11_NoResultState ==
  (rendered # "none" /\ absent # {}) => rendered = "No result"

====
